---- MODULE Spec2Model ----
(***************************************************************************)
(* Authentication core of enterprise-rag-platform-be: signed access and    *)
(* refresh tokens (AuthService), the refresh_tokens ledger, rotation with  *)
(* reuse detection, logout, logout-all and the role/permission tables the  *)
(* tokens are built from.                                                  *)
(*                                                                         *)
(* Time is the wall clock in whole seconds, the resolution of the iat and  *)
(* exp claims that jwt.sign writes.                                        *)
(***************************************************************************)
EXTENDS Integers, Sequences, FiniteSets, TLC

\* ------------------------------------------------------------------ bounds
MaxTime == 2
MaxRecords == 3
MaxFewRecords == 2
MaxManyRecords == 4

\* JWT_REFRESH_EXPIRES / JWT_ACCESS_EXPIRES, scaled to the model's clock
RefreshTtl == 2
AccessTtl == 1

\* revoked_at IS NULL
NULL == 0 - 1

Users == {"u1", "u2"}
Roles == {"r1", "r2"}
\* permissions.code is any string the DTO lets through (@IsString only)
Codes == {"", "A", "B"}

VARIABLES
  now,               \* Date.now(), in seconds
  config,            \* ConfigService: JWT_REFRESH_SECRET ("" when not set)
  users,             \* users table: id -> [status, password]
  user_roles,        \* user_roles table: set of <<user_id, role>>
  role_permissions,  \* role_permissions joined with permissions: <<role, code>>
  refresh_tokens,    \* refresh_tokens table, in insertion order
  issued,            \* history: issued[i] is the call that created refresh_tokens[i]
  last,              \* history: the call that returned last
  burned,            \* history: refresh tokens a replay should have ended
  revokedAllUpTo,    \* history: per user, the rows there were when a recorded
                     \* revokeAllUserTokens last returned for the user
  pc,                \* per request task: where its handler is suspended
  frame,             \* per request task: the handler's local variables
  requests,          \* per guarded request: AutoRefreshGuard.canActivate's frame
  refreshPromises,   \* AutoRefreshGuard.refreshPromises: key -> starting request
  gate               \* the last PermissionsGuard.canActivate call and its verdict

vars == <<now, config, users, user_roles, role_permissions, refresh_tokens,
          issued, last, burned, revokedAllUpTo, pc, frame, requests,
          refreshPromises, gate>>

rbacVars == <<user_roles, role_permissions>>
concVars == <<pc, frame>>
guardVars == <<requests, refreshPromises, gate>>
taskVars == <<concVars, guardVars>>

\* ------------------------------------------------------------ Token Codec
AccessSecret == "JWT_ACCESS_SECRET"

RefreshSecretOf(cfg) ==
  IF cfg.JWT_REFRESH_SECRET # "" THEN cfg.JWT_REFRESH_SECRET ELSE AccessSecret

\* A compact JWT: the payload claims and the key its HS256 signature was made
\* with.  HS256 is deterministic, so equal claims under one key are one string.
Jwt(type, sub, roles, permissions, iat, exp, sig) ==
  [type |-> type, sub |-> sub, roles |-> roles, permissions |-> permissions,
   iat |-> iat, exp |-> exp, sig |-> sig]

NoToken == Jwt("none", "", {}, {}, 0, 0, "")

signAccessToken(userId, roles, permissions, t) ==
  Jwt("none", userId, roles, permissions, t, t + AccessTtl, AccessSecret)

signRefreshToken(userId, t, cfg) ==
  Jwt("refresh", userId, {}, {}, t, t + RefreshTtl, RefreshSecretOf(cfg))

jwtVerifyNoExpiry(tok, secret, t) ==
  IF tok.sig # secret THEN "JsonWebTokenError" ELSE "ok"

jwtVerifyExpiryFirst(tok, secret, t) ==
  IF t >= tok.exp /\ tok.sig # "malformed" /\ tok.sig # "" THEN "TokenExpiredError"
  ELSE IF tok.sig # secret THEN "JsonWebTokenError"
  ELSE "ok"

\* jwt.verify: signature first, then exp (clockTimestamp >= exp is expired)
jwtVerify(tok, secret, t) ==
  IF tok.sig # secret THEN "JsonWebTokenError"
  ELSE IF t >= tok.exp THEN "TokenExpiredError"
  ELSE "ok"

\* --------------------------------------------------------------- bcrypt
\* bcrypt reads the first 72 bytes of its input.  A signed token is
\*   base64url(header) "." base64url(payload) "." signature
\* with the 36-character HS256 header, so 35 characters of the payload are
\* read: {"sub":" and the first 18 characters of the user id.  The type, iat,
\* exp claims and the signature lie beyond byte 72.
bcryptInput(tok) == [alg |-> "HS256", subHead |-> tok.sub]

bcryptHash(tok) == [digestOf |-> bcryptInput(tok)]

bcryptCompare(tok, hash) == bcryptInput(tok) = hash.digestOf

\* ------------------------------------------------------ refresh_tokens table
Row(userId, hash, expiresAt) ==
  [user_id |-> userId, token_hash |-> hash, expires_at |-> expiresAt,
   revoked_at |-> NULL]

\* findMany({ user_id, revoked_at: null, expires_at: { gt: now } })
findManyActive(tbl, sub, t) ==
  {i \in DOMAIN tbl : /\ tbl[i].user_id = sub
                      /\ tbl[i].revoked_at = NULL
                      /\ tbl[i].expires_at > t}

\* findMany({ user_id, revoked_at: null })
findManyUnrevoked(tbl, sub) ==
  {i \in DOMAIN tbl : tbl[i].user_id = sub /\ tbl[i].revoked_at = NULL}

\* the rows of a result set that the compare loop can stop at; findMany has
\* no orderBy, so the first matching row is any matching row
matching(tok, tbl, ids) ==
  {i \in ids : bcryptCompare(tok, tbl[i].token_hash)}

\* updateMany({ where: { user_id }, data: { revoked_at: now } })
updateManyOfUser(tbl, sub, t) ==
  [i \in DOMAIN tbl |->
     IF tbl[i].user_id = sub THEN [tbl[i] EXCEPT !.revoked_at = t] ELSE tbl[i]]

updateManyOfAnyUser(tbl, sub, t) ==
  [i \in DOMAIN tbl |->
     IF tbl[i].revoked_at = NULL THEN [tbl[i] EXCEPT !.revoked_at = t] ELSE tbl[i]]

\* updateMany({ where: { user_id, revoked_at: null }, data: { revoked_at: now } })
updateManyUnrevoked(tbl, sub, t) ==
  [i \in DOMAIN tbl |->
     IF tbl[i].user_id = sub /\ tbl[i].revoked_at = NULL
     THEN [tbl[i] EXCEPT !.revoked_at = t] ELSE tbl[i]]

updateByUserOfId(tbl, id, t) == updateManyOfUser(tbl, tbl[id].user_id, t)

\* update({ where: { id }, data: { revoked_at: now } })
updateById(tbl, id, t) == [tbl EXCEPT ![id].revoked_at = t]

\* ------------------------------------------------------- roles, permissions
\* userRoles.map((r) => r.roles.name)
roleNames(ur, sub) == {r \in Roles : <<sub, r>> \in ur}

permissionsOfOneRole(ur, rp, sub) ==
  IF roleNames(ur, sub) = {} THEN {}
  ELSE LET r == CHOOSE x \in roleNames(ur, sub) : TRUE
       IN {c \in Codes : c # "" /\ <<r, c>> \in rp}

\* the permissionsSet loop: codes of the user's roles, falsy codes skipped
permissionsSet(ur, rp, sub) ==
  {c \in Codes : /\ c # ""
                 /\ \E r \in roleNames(ur, sub) : <<r, c>> \in rp}

\* -------------------------------------------------------------- issueTokens
issuePair(userId, roles, permissions, t, cfg) ==
  [accessToken |-> signAccessToken(userId, roles, permissions, t),
   refreshToken |-> signRefreshToken(userId, t, cfg)]

issueRow(pair, userId, t) ==
  Row(userId, bcryptHash(pair.refreshToken), t + RefreshTtl)

Minted(via, pair, presented, consumed, wasRevoked, wasExpired) ==
  [via |-> via, refresh |-> pair.refreshToken, access |-> pair.accessToken,
   presented |-> presented, consumed |-> consumed,
   wasRevoked |-> wasRevoked, wasExpired |-> wasExpired]

\* res.cookie appends one Set-Cookie header; '' is the cleared cookie
setRefreshTokenCookie(res, token) == Append(res, token)
clearRefreshTokenCookie(res) == Append(res, NoToken)

\* a call and how it returned; setCookie is the Set-Cookie headers the
\* controller wrote to the response
Responded(op, tok, sub, result, setCookie) ==
  [op |-> op, tok |-> tok, sub |-> sub, result |-> result, setCookie |-> setCookie]

Returned(op, tok, sub, result) == Responded(op, tok, sub, result, <<>>)

\* ------------------------------------------------------------ request tasks
\* each inbound request runs as its own task and is suspended at its awaits
Tasks == {"t1", "t2"}

Frame(tok, found, matched, wasRevoked, wasExpired, roles, permissions, result) ==
  [tok |-> tok, found |-> found, matched |-> matched,
   wasRevoked |-> wasRevoked, wasExpired |-> wasExpired,
   roles |-> roles, permissions |-> permissions, result |-> result]

IdleFrame == Frame(NoToken, {}, 0, FALSE, FALSE, {}, {}, "none")

\* -------------------------------------------------- guarded requests
\* requests that pass through AutoRefreshGuard, the global guard
Reqs == {"q1", "q2"}

\* the promise performRefresh returns, with the locals of the rotation behind it
Promise(state, tok, verified, found, value, minted) ==
  [state |-> state, tok |-> tok, verified |-> verified, found |-> found,
   value |-> value, minted |-> minted]

NoPromise == Promise("none", NoToken, FALSE, {}, NoToken, 0)

\* what the request carried and when it arrived, request.headers.authorization
\* as it is now, the Set-Cookie headers written to the response so far, and how
\* canActivate ended
Request(stage, at, bearer, cookie, awaits, authorization, setCookie, result, promise) ==
  [stage |-> stage, at |-> at, bearer |-> bearer, cookie |-> cookie,
   awaits |-> awaits, authorization |-> authorization, setCookie |-> setCookie,
   result |-> result, promise |-> promise]

NewRequest ==
  Request("new", 0, NoToken, NoToken, "", NoToken, <<>>, "none", NoPromise)

\* PermissionsGuard call: which guard, the handler's 'permissions' metadata,
\* req.user (userId and the permissions claim), and what canActivate returned
Gate(guard, declared, required, userId, permissions, verdict) ==
  [guard |-> guard, declared |-> declared, required |-> required,
   userId |-> userId, permissions |-> permissions, verdict |-> verdict]

NoGate == Gate("none", FALSE, {}, "", {}, TRUE)

\* ---------------------------------------------------------------- inputs
Forge(tok) == [tok EXCEPT !.sig = "forged"]

Garbage == Jwt("none", "", {}, {}, 0, 0, "malformed")

IssuedRefresh == {issued[i].refresh : i \in DOMAIN issued}
IssuedAccess == {issued[i].access : i \in DOMAIN issued}

\* what a client can put in the refresh_token cookie
Cookies ==
  IssuedRefresh \cup IssuedAccess \cup {Forge(t) : t \in IssuedRefresh}
    \cup {Garbage}

\* what a client can send as Authorization: Bearer
Bearers == IssuedAccess \cup IssuedRefresh \cup {Garbage}

Emails(U) == U \cup {"nobody"}
Passwords == {"pw", "wrong"}

\* ------------------------------------------------------------------ Init
Init ==
  /\ now = 0
  /\ config \in {[JWT_REFRESH_SECRET |-> "JWT_REFRESH_SECRET"],
                 [JWT_REFRESH_SECRET |-> ""]}
  /\ users = [u \in Users |-> [status |-> "ACTIVE", password |-> "pw"]]
  /\ user_roles = {<<"u1", "r1">>}
  /\ role_permissions = {<<"r1", "A">>, <<"r2", "B">>}
  /\ refresh_tokens = <<>>
  /\ issued = <<>>
  /\ last = Returned("init", NoToken, "", "ok")
  /\ burned = {}
  /\ revokedAllUpTo = [u \in Users |-> 0]
  /\ pc = [t \in Tasks |-> "idle"]
  /\ frame = [t \in Tasks |-> IdleFrame]
  /\ requests = [q \in Reqs |-> NewRequest]
  /\ refreshPromises = {}
  /\ gate = NoGate

\* --------------------------------------------------------------- history
\* the pairs that earlier successful rotations of tok returned
PairsOf(tok) ==
  {issued[i].refresh : i \in {j \in DOMAIN issued :
      issued[j].via = "rotate" /\ issued[j].presented = tok}}

\* the refresh tokens whose rows the ids name
TokensOf(ids) == {issued[i].refresh : i \in ids}

\* ---------------------------------------------- handlers, run to completion
\* AuthController.login
Login(email, password, cap) ==
  /\ UNCHANGED <<now, config, users, rbacVars, taskVars, burned, revokedAllUpTo>>
  /\ IF email \notin Users \/ password # users[email].password
     THEN /\ last' = Returned("login", NoToken, email, "InvalidCredentials")
          /\ UNCHANGED <<refresh_tokens, issued>>
     ELSE IF users[email].status # "ACTIVE"
     THEN /\ last' = Returned("login", NoToken, email, "Inactive")
          /\ UNCHANGED <<refresh_tokens, issued>>
     ELSE LET pair == issuePair(email, roleNames(user_roles, email),
                                permissionsSet(user_roles, role_permissions, email),
                                now, config)
          IN /\ Len(refresh_tokens) < cap
             /\ refresh_tokens' = Append(refresh_tokens, issueRow(pair, email, now))
             /\ issued' = Append(issued, Minted("login", pair, NoToken, 0, FALSE, FALSE))
             /\ last' = Responded("login", NoToken, email, "ok",
                                   setRefreshTokenCookie(<<>>, pair.refreshToken))

\* AuthService.rotateRefreshToken
Rotate(tok, cap) ==
  /\ UNCHANGED <<now, config, users, rbacVars, taskVars, revokedAllUpTo>>
  /\ LET sub == tok.sub
         found == findManyActive(refresh_tokens, sub, now)
         hits == matching(tok, refresh_tokens, found)
     IN
     IF jwtVerify(tok, RefreshSecretOf(config), now) # "ok" \/ tok.type # "refresh"
     THEN /\ last' = Returned("rotate", tok, sub, "InvalidToken")
          /\ UNCHANGED <<refresh_tokens, issued, burned>>
     ELSE IF hits = {}
     THEN /\ refresh_tokens' = updateManyOfUser(refresh_tokens, sub, now)
          /\ last' = Returned("rotate", tok, sub, "ReuseDetected")
          /\ burned' = burned \cup PairsOf(tok) \cup TokensOf(found)
          /\ UNCHANGED issued
     ELSE \E m \in hits :
          LET revoked == updateById(refresh_tokens, m, now)
              pair == issuePair(sub, roleNames(user_roles, sub),
                                permissionsSet(user_roles, role_permissions, sub),
                                now, config)
          IN /\ Len(refresh_tokens) < cap
             /\ refresh_tokens' = Append(revoked, issueRow(pair, sub, now))
             /\ issued' = Append(issued,
                  Minted("rotate", pair, tok, m,
                         refresh_tokens[m].revoked_at # NULL,
                         refresh_tokens[m].expires_at <= now))
             /\ last' = Returned("rotate", tok, sub, "ok")
             /\ burned' = burned \cup PairsOf(tok)

\* AuthController.logout -> AuthService.revokeRefreshToken
Logout(tok) ==
  /\ UNCHANGED <<now, config, users, rbacVars, taskVars, issued, burned,
                 revokedAllUpTo>>
  /\ last' = Responded("logout", NoToken, "", "ok", clearRefreshTokenCookie(<<>>))
  /\ LET hits == matching(tok, refresh_tokens,
                          findManyUnrevoked(refresh_tokens, tok.sub))
     IN
     IF tok = NoToken \/ jwtVerify(tok, RefreshSecretOf(config), now) # "ok"
          \/ hits = {}
     THEN UNCHANGED refresh_tokens
     ELSE \E m \in hits : refresh_tokens' = updateById(refresh_tokens, m, now)

\* AuthController.logoutAll behind JwtAuthGuard -> revokeAllUserTokens
logoutAll(bearer) ==
  /\ UNCHANGED <<now, config, users, rbacVars, taskVars, issued, burned>>
  /\ IF jwtVerify(bearer, AccessSecret, now) # "ok"
     THEN /\ last' = Returned("logoutAll", NoToken, "", "Unauthorized")
          /\ UNCHANGED refresh_tokens
     ELSE /\ last' = Responded("logoutAll", NoToken, bearer.sub, "ok",
                                 clearRefreshTokenCookie(<<>>))
          /\ refresh_tokens' = updateManyUnrevoked(refresh_tokens, bearer.sub, now)

LogoutAll(bearer) == logoutAll(bearer) /\ UNCHANGED revokedAllUpTo

\* the same call, with the history of logout-all kept
LogoutAllRecorded(bearer) ==
  /\ logoutAll(bearer)
  /\ revokedAllUpTo' =
       IF jwtVerify(bearer, AccessSecret, now) # "ok" THEN revokedAllUpTo
       ELSE [revokedAllUpTo EXCEPT ![bearer.sub] = Len(refresh_tokens)]

\* the clock
Tick ==
  /\ now < MaxTime
  /\ now' = now + 1
  /\ last' = Returned("tick", NoToken, "", "ok")
  /\ UNCHANGED <<config, users, rbacVars, refresh_tokens, issued, burned,
                 revokedAllUpTo, taskVars>>

\* ---- one subject, calls one after another
DoLogin == \E e \in Emails({"u1"}), pw \in Passwords : Login(e, pw, MaxRecords)
DoRotate == \E tok \in Cookies : Rotate(tok, MaxRecords)
DoLogout == \E tok \in Cookies \cup {NoToken} : Logout(tok)
DoLogoutAll == \E b \in Bearers : LogoutAll(b)

Next == DoLogin \/ DoRotate \/ DoLogout \/ DoLogoutAll \/ Tick

Spec == Init /\ [][Next]_vars

\* ---- two subjects, calls one after another
UsersLogin == \E e \in Emails(Users), pw \in Passwords : Login(e, pw, MaxFewRecords)
UsersRotate == \E tok \in Cookies : Rotate(tok, MaxFewRecords)

NextUsers == UsersLogin \/ UsersRotate \/ DoLogout \/ DoLogoutAll \/ Tick

SpecUsers == Init /\ [][NextUsers]_vars

\* ---- one subject, calls one after another, logout-all recorded
RevokeAllLogin == \E e \in Emails({"u1"}), pw \in Passwords : Login(e, pw, MaxRecords)
RevokeAllRotate == \E tok \in IssuedRefresh : Rotate(tok, MaxRecords)
DoLogoutAllRecorded == \E b \in Bearers : LogoutAllRecorded(b)

NextRevokeAll ==
  RevokeAllLogin \/ RevokeAllRotate \/ DoLogout \/ DoLogoutAllRecorded \/ Tick

SpecRevokeAll == Init /\ [][NextRevokeAll]_vars

\* ---- role administration
\* UsersService.assignRoles: deleteMany({ user_id }) then createMany
AssignRoles(userId, roleIds) ==
  /\ user_roles' = {ur \in user_roles : ur[1] # userId}
                      \cup {<<userId, r>> : r \in roleIds}
  /\ last' = Returned("assignRoles", NoToken, userId, "ok")
  /\ UNCHANGED <<now, config, users, role_permissions, refresh_tokens, issued,
                 burned, revokedAllUpTo, taskVars>>

\* RolesService.assignPermissions: deleteMany({ role_id }) then createMany
AssignPermissions(roleId, codes) ==
  /\ role_permissions' = {rp \in role_permissions : rp[1] # roleId}
                            \cup {<<roleId, c>> : c \in codes}
  /\ last' = Returned("assignPermissions", NoToken, roleId, "ok")
  /\ UNCHANGED <<now, config, users, user_roles, refresh_tokens, issued,
                 burned, revokedAllUpTo, taskVars>>

\* the permission sets an administrator attaches to a role
PermissionSets == {{"A"}, {"B"}, {"", "A"}}

RbacLogin == \E pw \in Passwords : Login("u1", pw, MaxFewRecords)
RbacRotate == \E tok \in IssuedRefresh : Rotate(tok, MaxFewRecords)
DoAssignRoles == \E rs \in SUBSET Roles : AssignRoles("u1", rs)
DoAssignPermissions ==
  \E r \in Roles, cs \in PermissionSets : AssignPermissions(r, cs)

NextRbac == RbacLogin \/ RbacRotate \/ DoAssignRoles \/ DoAssignPermissions

SpecRbac == Init /\ [][NextRbac]_vars

\* ---- user administration
\* enum UserStatus
UserStatus == {"ACTIVE", "INACTIVE"}

\* UsersService.updateStatus: findUnique, then update({ data: { status } })
updateStatus(userId, status) ==
  /\ userId \in DOMAIN users
  /\ users' = [users EXCEPT ![userId].status = status]
  /\ last' = Returned("updateStatus", NoToken, userId, "ok")
  /\ UNCHANGED <<now, config, rbacVars, refresh_tokens, issued, burned,
                 revokedAllUpTo, taskVars>>

StatusLogin == \E pw \in Passwords : Login("u1", pw, MaxRecords)
StatusRotate == \E tok \in IssuedRefresh : Rotate(tok, MaxRecords)
DoUpdateStatus == \E u \in Users, st \in UserStatus : updateStatus(u, st)

NextStatus == StatusLogin \/ StatusRotate \/ DoUpdateStatus \/ DoLogout \/ Tick

SpecStatus == Init /\ [][NextStatus]_vars

\* ------------------------------------- handlers, one await at a time
\* the response is sent and the task's locals are gone
Done(t, result) ==
  /\ pc' = [pc EXCEPT ![t] = "idle"]
  /\ frame' = [frame EXCEPT ![t] = IdleFrame]

\* rotateRefreshToken up to the first findMany
RotateFind(t, tok) ==
  /\ pc[t] = "idle"
  /\ UNCHANGED <<now, config, users, rbacVars, refresh_tokens, issued, last, burned,
                 revokedAllUpTo,
                 guardVars>>
  /\ IF jwtVerify(tok, RefreshSecretOf(config), now) # "ok" \/ tok.type # "refresh"
     THEN Done(t, "InvalidToken")
     ELSE /\ pc' = [pc EXCEPT ![t] = "rotate:revoke"]
          /\ frame' = [frame EXCEPT ![t] =
               Frame(tok, findManyActive(refresh_tokens, tok.sub, now), 0,
                     FALSE, FALSE, {}, {}, "none")]

\* the compare loop, then updateMany (no match) or update (match)
RotateRevoke(t) ==
  /\ pc[t] = "rotate:revoke"
  /\ UNCHANGED <<now, config, users, rbacVars, issued, last, burned,
                 revokedAllUpTo,
                 guardVars>>
  /\ LET tok == frame[t].tok
         hits == matching(tok, refresh_tokens, frame[t].found)
     IN
     IF hits = {}
     THEN /\ refresh_tokens' = updateManyOfUser(refresh_tokens, tok.sub, now)
          /\ Done(t, "ReuseDetected")
     ELSE \E m \in hits :
          /\ refresh_tokens' = updateById(refresh_tokens, m, now)
          /\ pc' = [pc EXCEPT ![t] = "rotate:roles"]
          /\ frame' = [frame EXCEPT ![t] =
               [@ EXCEPT !.matched = m,
                         !.wasRevoked = refresh_tokens[m].revoked_at # NULL,
                         !.wasExpired = refresh_tokens[m].expires_at <= now]]

\* user_roles.findMany with roles and permissions included
RotateLoadRoles(t) ==
  /\ pc[t] = "rotate:roles"
  /\ pc' = [pc EXCEPT ![t] = "rotate:issue"]
  /\ frame' = [frame EXCEPT ![t] =
       [@ EXCEPT !.roles = roleNames(user_roles, frame[t].tok.sub),
                 !.permissions = permissionsSet(user_roles, role_permissions,
                                                frame[t].tok.sub)]]
  /\ UNCHANGED <<now, config, users, rbacVars, refresh_tokens, issued, last, burned,
                 revokedAllUpTo,
                 guardVars>>

\* issueTokens: sign both tokens, hash, create the row
RotateIssue(t, cap) ==
  /\ pc[t] = "rotate:issue"
  /\ Len(refresh_tokens) < cap
  /\ LET f == frame[t]
         pair == issuePair(f.tok.sub, f.roles, f.permissions, now, config)
     IN /\ refresh_tokens' = Append(refresh_tokens, issueRow(pair, f.tok.sub, now))
        /\ issued' = Append(issued,
             Minted("rotate", pair, f.tok, f.matched, f.wasRevoked, f.wasExpired))
  /\ Done(t, "ok")
  /\ UNCHANGED <<now, config, users, rbacVars, last, burned,
                 revokedAllUpTo,
                 guardVars>>

\* revokeRefreshToken up to its findMany
LogoutFind(t, tok) ==
  /\ pc[t] = "idle"
  /\ UNCHANGED <<now, config, users, rbacVars, refresh_tokens, issued, last, burned,
                 revokedAllUpTo,
                 guardVars>>
  /\ IF jwtVerify(tok, RefreshSecretOf(config), now) # "ok"
     THEN Done(t, "loggedOut")
     ELSE /\ pc' = [pc EXCEPT ![t] = "logout:update"]
          /\ frame' = [frame EXCEPT ![t] =
               Frame(tok, findManyUnrevoked(refresh_tokens, tok.sub), 0,
                     FALSE, FALSE, {}, {}, "none")]

\* the compare loop of revokeRefreshToken and its update
LogoutUpdate(t) ==
  /\ pc[t] = "logout:update"
  /\ UNCHANGED <<now, config, users, rbacVars, issued, last, burned,
                 revokedAllUpTo,
                 guardVars>>
  /\ Done(t, "loggedOut")
  /\ LET hits == matching(frame[t].tok, refresh_tokens, frame[t].found)
     IN IF hits = {}
        THEN UNCHANGED refresh_tokens
        ELSE \E m \in hits : refresh_tokens' = updateById(refresh_tokens, m, now)

\* logoutAll: JwtAuthGuard, then the one updateMany of revokeAllUserTokens
LogoutAllStep(t, bearer) ==
  /\ pc[t] = "idle"
  /\ jwtVerify(bearer, AccessSecret, now) = "ok"
  /\ refresh_tokens' = updateManyUnrevoked(refresh_tokens, bearer.sub, now)
  /\ Done(t, "loggedOutAll")
  /\ UNCHANGED <<now, config, users, rbacVars, issued, last, burned,
                 revokedAllUpTo, guardVars>>

\* login: findUnique with the roles included, the password and status checks
LoginFind(t, email, password) ==
  /\ pc[t] = "idle"
  /\ UNCHANGED <<now, config, users, rbacVars, refresh_tokens, issued, last, burned,
                 revokedAllUpTo,
                 guardVars>>
  /\ IF email \notin Users \/ password # users[email].password
     THEN Done(t, "InvalidCredentials")
     ELSE IF users[email].status # "ACTIVE"
     THEN Done(t, "Inactive")
     ELSE /\ pc' = [pc EXCEPT ![t] = "login:issue"]
          /\ frame' = [frame EXCEPT ![t] =
               Frame([NoToken EXCEPT !.sub = email], {}, 0, FALSE, FALSE,
                     roleNames(user_roles, email),
                     permissionsSet(user_roles, role_permissions, email), "none")]

\* login: issueTokens
LoginIssue(t, cap) ==
  /\ pc[t] = "login:issue"
  /\ Len(refresh_tokens) < cap
  /\ LET f == frame[t]
         pair == issuePair(f.tok.sub, f.roles, f.permissions, now, config)
     IN /\ refresh_tokens' = Append(refresh_tokens, issueRow(pair, f.tok.sub, now))
        /\ issued' = Append(issued, Minted("login", pair, NoToken, 0, FALSE, FALSE))
  /\ Done(t, "ok")
  /\ UNCHANGED <<now, config, users, rbacVars, last, burned,
                 revokedAllUpTo,
                 guardVars>>

\* the clock, while requests are in flight
TickConc ==
  /\ now < MaxTime
  /\ now' = now + 1
  /\ UNCHANGED <<config, users, rbacVars, refresh_tokens, issued, last, burned,
                 revokedAllUpTo, taskVars>>

\* ---- one subject, two request tasks interleaved at their awaits
ConcLoginFind == \E t \in Tasks, pw \in Passwords : LoginFind(t, "u1", pw)
ConcLoginIssue == \E t \in Tasks : LoginIssue(t, MaxRecords)
ConcRotateFind == \E t \in Tasks, tok \in Cookies : RotateFind(t, tok)
ConcRotateRevoke == \E t \in Tasks : RotateRevoke(t)
ConcRotateLoadRoles == \E t \in Tasks : RotateLoadRoles(t)
ConcRotateIssue == \E t \in Tasks : RotateIssue(t, MaxRecords)
ConcLogoutFind == \E t \in Tasks, tok \in IssuedRefresh : LogoutFind(t, tok)
ConcLogoutUpdate == \E t \in Tasks : LogoutUpdate(t)
ConcLogoutAll == \E t \in Tasks, b \in IssuedAccess : LogoutAllStep(t, b)

NextConc ==
  \/ ConcLoginFind \/ ConcLoginIssue
  \/ ConcRotateFind \/ ConcRotateRevoke \/ ConcRotateLoadRoles \/ ConcRotateIssue
  \/ ConcLogoutFind \/ ConcLogoutUpdate \/ ConcLogoutAll
  \/ TickConc

SpecConc == Init /\ [][NextConc]_vars

\* ---- two subjects, two request tasks interleaved at their awaits; both log
\* in, and the tokens of u1 are rotated and logged out
IsoLoginFind == \E t \in Tasks, e \in Users : LoginFind(t, e, "pw")
IsoLoginIssue == \E t \in Tasks : LoginIssue(t, MaxRecords)
IsoRotateFind ==
  \E t \in Tasks, tok \in {r \in IssuedRefresh : r.sub = "u1"} : RotateFind(t, tok)
IsoRotateIssue == \E t \in Tasks : RotateIssue(t, MaxRecords)
IsoLogoutFind ==
  \E t \in Tasks, tok \in {r \in IssuedRefresh : r.sub = "u1"} : LogoutFind(t, tok)
IsoLogoutAll ==
  \E t \in Tasks, b \in {a \in IssuedAccess : a.sub = "u1"} : LogoutAllStep(t, b)

NextIsolation ==
  \/ IsoLoginFind \/ IsoLoginIssue
  \/ IsoRotateFind \/ ConcRotateRevoke \/ ConcRotateLoadRoles \/ IsoRotateIssue
  \/ IsoLogoutFind \/ ConcLogoutUpdate \/ IsoLogoutAll

SpecIsolation == Init /\ [][NextIsolation]_vars

\* issueTokens when prisma.refresh_tokens.create rejects: the error leaves
\* rotateRefreshToken, which has no transaction around its update and this create
RotateIssueFails(t) ==
  /\ pc[t] = "rotate:issue"
  /\ Done(t, "error")
  /\ UNCHANGED <<now, config, users, rbacVars, refresh_tokens, issued, last, burned,
                 revokedAllUpTo, guardVars>>

\* ---- one subject, two request tasks, the database may refuse an insert
AtomicRotateFind == \E t \in Tasks, tok \in IssuedRefresh : RotateFind(t, tok)
AtomicIssueFails == \E t \in Tasks : RotateIssueFails(t)

NextAtomic ==
  \/ ConcLoginFind \/ ConcLoginIssue
  \/ AtomicRotateFind \/ ConcRotateRevoke \/ ConcRotateLoadRoles \/ ConcRotateIssue
  \/ AtomicIssueFails
  \/ TickConc

SpecAtomic == Init /\ [][NextAtomic]_vars

\* ------------------------------------------------------ AutoRefreshGuard
\* jwtService.decode: no signature check; null ("") when the token has no sub
getUserIdFromRefreshToken(token) ==
  IF token.sig = "malformed" THEN "" ELSE token.sub

\* userId || refreshToken.substring(0, 20)
refreshKey(token) ==
  IF getUserIdFromRefreshToken(token) # ""
  THEN getUserIdFromRefreshToken(token)
  ELSE "malformed"

\* refreshPromises.get / set / delete
refreshPromisesNever(map, key) == {}
refreshPromisesGet(map, key) == {e[2] : e \in {x \in map : x[1] = key}}
refreshPromisesUnset(map, key, q) == map
refreshPromisesSet(map, key, q) == {x \in map : x[1] # key} \cup {<<key, q>>}
refreshPromisesKeep(map, key) == map
refreshPromisesDelete(map, key) == {x \in map : x[1] # key}

\* `return true` for a token the guard has nothing to do with
passThrough(r) == [r EXCEPT !.stage = "done", !.result = "pass"]

\* request.headers.authorization = `Bearer ${newAccessToken}`; return true
proceedUnchanged(r, newAccessToken) == [r EXCEPT !.stage = "done", !.result = "pass"]
proceedWith(r, newAccessToken) ==
  [r EXCEPT !.stage = "done", !.result = "pass", !.authorization = newAccessToken]

\* clearRefreshTokenCookie(response); throw new UnauthorizedException(...)
rejectKeepingCookie(r) == [r EXCEPT !.stage = "done", !.result = "Unauthorized"]
rejectExpired(r) ==
  [r EXCEPT !.stage = "done", !.result = "Unauthorized",
            !.setCookie = clearRefreshTokenCookie(@)]

\* canActivate from its start to its first await (or to its return)
canActivateEnter(q, bearer, cookie) ==
  /\ requests[q].stage = "new"
  /\ UNCHANGED <<now, config, users, rbacVars, refresh_tokens, issued, last, burned,
                 revokedAllUpTo,
                 concVars, gate>>
  /\ LET error == IF bearer = NoToken THEN "absent"
                  ELSE jwtVerify(bearer, AccessSecret, now)
         key == refreshKey(cookie)
         inflight == refreshPromisesGet(refreshPromises, key)
         verified == /\ jwtVerify(cookie, RefreshSecretOf(config), now) = "ok"
                     /\ cookie.type = "refresh"
         base == [requests[q] EXCEPT !.at = now, !.bearer = bearer,
                                     !.cookie = cookie, !.authorization = bearer]
     IN
     IF error # "TokenExpiredError"
     THEN /\ requests' = [requests EXCEPT ![q] = passThrough(base)]
          /\ UNCHANGED refreshPromises
     ELSE IF cookie = NoToken
     THEN /\ requests' = [requests EXCEPT ![q] = rejectExpired(base)]
          /\ UNCHANGED refreshPromises
     ELSE IF inflight # {}
     THEN /\ \E s \in inflight :
               requests' = [requests EXCEPT ![q] =
                 [base EXCEPT !.stage = "waiting", !.awaits = s]]
          /\ UNCHANGED refreshPromises
     ELSE /\ requests' = [requests EXCEPT ![q] =
               [base EXCEPT !.stage = "waiting", !.awaits = q,
                  !.promise = Promise("pending", cookie, verified,
                     IF verified
                     THEN findManyActive(refresh_tokens, cookie.sub, now)
                     ELSE {}, NoToken, 0)]]
          /\ refreshPromises' = refreshPromisesSet(refreshPromises, key, q)

\* performRefresh from the findMany of rotateRefreshToken to its return, and
\* the finally callback, the first reaction registered on the promise
performRefreshSettle(q, cap) ==
  /\ requests[q].promise.state = "pending"
  /\ UNCHANGED <<now, config, users, rbacVars, concVars, gate, revokedAllUpTo>>
  /\ refreshPromises' =
       refreshPromisesDelete(refreshPromises, refreshKey(requests[q].promise.tok))
  /\ LET p == requests[q].promise
         tok == p.tok
         hits == matching(tok, refresh_tokens, p.found)
         failed == [requests EXCEPT
                      ![q].promise = [p EXCEPT !.state = "fulfilled"],
                      ![q].setCookie = clearRefreshTokenCookie(@)]
     IN
     IF ~p.verified
     THEN /\ requests' = failed
          /\ last' = Returned("rotate", tok, tok.sub, "InvalidToken")
          /\ UNCHANGED <<refresh_tokens, issued, burned>>
     ELSE IF hits = {}
     THEN /\ requests' = failed
          /\ refresh_tokens' = updateManyOfUser(refresh_tokens, tok.sub, now)
          /\ last' = Returned("rotate", tok, tok.sub, "ReuseDetected")
          /\ burned' = burned \cup PairsOf(tok) \cup TokensOf(p.found)
          /\ UNCHANGED issued
     ELSE \E m \in hits :
          LET pair == issuePair(tok.sub, roleNames(user_roles, tok.sub),
                        permissionsSet(user_roles, role_permissions, tok.sub),
                        now, config)
          IN /\ Len(refresh_tokens) < cap
             /\ refresh_tokens' = Append(updateById(refresh_tokens, m, now),
                                         issueRow(pair, tok.sub, now))
             /\ issued' = Append(issued,
                  Minted("rotate", pair, tok, m,
                         refresh_tokens[m].revoked_at # NULL,
                         refresh_tokens[m].expires_at <= now))
             /\ requests' = [requests EXCEPT
                  ![q].promise = [p EXCEPT !.state = "fulfilled",
                                           !.value = pair.accessToken,
                                           !.minted = Len(issued) + 1],
                  ![q].setCookie = setRefreshTokenCookie(@, pair.refreshToken)]
             /\ last' = Returned("rotate", tok, tok.sub, "ok")
             /\ burned' = burned \cup PairsOf(tok)

\* canActivate after `await this.refreshTokenIfNeeded(...)`
canActivateResume(q) ==
  /\ requests[q].stage = "waiting"
  /\ requests[requests[q].awaits].promise.state = "fulfilled"
  /\ UNCHANGED <<now, config, users, rbacVars, refresh_tokens, issued, last, burned,
                 revokedAllUpTo,
                 concVars, refreshPromises, gate>>
  /\ LET newAccessToken == requests[requests[q].awaits].promise.value
     IN IF newAccessToken # NoToken
        THEN requests' = [requests EXCEPT ![q] = proceedWith(@, newAccessToken)]
        ELSE requests' = [requests EXCEPT ![q] = rejectExpired(@)]

\* ---- one session of one subject, two requests through the guard, one process
\* what a client sends: a pair it was issued, with the cookie intact, lost,
\* damaged or tampered, or with the bearer tampered; or nothing at all
GuardInputs ==
  UNION {{<<issued[i].access, issued[i].refresh>>,
          <<issued[i].access, NoToken>>,
          <<issued[i].access, Garbage>>,
          <<issued[i].access, Forge(issued[i].refresh)>>,
          <<Forge(issued[i].access), issued[i].refresh>>} : i \in DOMAIN issued}
    \cup {<<NoToken, NoToken>>}

GuardLogin == issued = <<>> /\ \E pw \in Passwords : Login("u1", pw, MaxFewRecords)
GuardLogout == \E tok \in IssuedRefresh : Logout(tok)
GuardEnter ==
  \E q \in Reqs, in \in GuardInputs : canActivateEnter(q, in[1], in[2])
GuardSettle == \E q \in Reqs : performRefreshSettle(q, MaxRecords)
GuardResume == \E q \in Reqs : canActivateResume(q)

NextGuard ==
  GuardLogin \/ GuardLogout \/ GuardEnter \/ GuardSettle \/ GuardResume \/ Tick

SpecGuard == Init /\ [][NextGuard]_vars

\* ------------------------------------------------------ PermissionsGuard
\* reflector.get('permissions', handler): undefined, or the declared list
Handler(declared, required) == [declared |-> declared, required |-> required]

Handlers ==
  {Handler(FALSE, {})} \cup
  {Handler(TRUE, r) : r \in {{}, {"A"}, {"B"}, {"A", "B"}, {"A", "C"}}}

\* required.every((p) => permissions.includes(p))
someIncluded(required, permissions) == \E p \in required : p \in permissions
everyIncluded(required, permissions) == \A p \in required : p \in permissions

permissionCodesOfAllRoles(ur, rp, userId) ==
  {c \in Codes : \E r \in Roles : <<r, c>> \in rp}

\* permissions.map((p) => p.permissions.code) over the role_permissions of the
\* roles of the user
userPermissionCodes(ur, rp, userId) ==
  {c \in Codes : \E r \in Roles : <<userId, r>> \in ur /\ <<r, c>> \in rp}

\* JwtStrategy.validate, run by JwtAuthGuard ahead of PermissionsGuard
validate(payload) ==
  [userId |-> payload.sub, roles |-> payload.roles, permissions |-> payload.permissions]

\* what each PermissionsGuard returns for req.user = user on a handler
returnsByClaims(user, handler) ==
  IF ~handler.declared THEN TRUE
  ELSE everyIncluded(handler.required, user.permissions)

returnsByDatabase(user, handler, ur, rp) ==
  IF ~handler.declared THEN TRUE
  ELSE everyIncluded(handler.required, userPermissionCodes(ur, rp, user.userId))

\* PermissionsGuard.canActivate over the claims of the access token
canActivateClaims(bearer, handler) ==
  /\ jwtVerify(bearer, AccessSecret, now) = "ok"
  /\ LET user == validate(bearer)
     IN gate' = Gate("claims", handler.declared, handler.required, user.userId,
                     user.permissions, returnsByClaims(user, handler))
  /\ UNCHANGED <<now, config, users, rbacVars, refresh_tokens, issued, last, burned,
                 revokedAllUpTo,
                 concVars, requests, refreshPromises>>

\* PermissionsGuard.canActivate over the database
canActivateDatabase(bearer, handler) ==
  /\ jwtVerify(bearer, AccessSecret, now) = "ok"
  /\ LET user == validate(bearer)
     IN gate' = Gate("database", handler.declared, handler.required, user.userId,
                     user.permissions,
                     returnsByDatabase(user, handler, user_roles, role_permissions))
  /\ UNCHANGED <<now, config, users, rbacVars, refresh_tokens, issued, last, burned,
                 revokedAllUpTo,
                 concVars, requests, refreshPromises>>

\* ---- one subject whose roles change, calls through the gate
GateLogin == \E pw \in Passwords : Login("u1", pw, MaxFewRecords)
GateByClaims == \E b \in IssuedAccess, h \in Handlers : canActivateClaims(b, h)
GateByDatabase == \E b \in IssuedAccess, h \in Handlers : canActivateDatabase(b, h)

NextGate == GateLogin \/ DoAssignRoles \/ GateByClaims \/ GateByDatabase

SpecGate == Init /\ [][NextGate]_vars

\* ---- one subject, calls one after another, a longer ledger
ReplayLogin == \E e \in Emails({"u1"}), pw \in Passwords : Login(e, pw, MaxManyRecords)
ReplayRotate == \E tok \in Cookies : Rotate(tok, MaxManyRecords)

NextReplay == ReplayLogin \/ ReplayRotate \/ DoLogout \/ DoLogoutAll \/ Tick

SpecReplay == Init /\ [][NextReplay]_vars

\* ================================================================ claims
\* what the claims read off a presented refresh token, independent of jwtVerify
SignedRefresh(tok) == tok.sig = RefreshSecretOf(config) /\ tok.type = "refresh"
Unexpired(tok) == now < tok.exp
RotationsOf(tok) ==
  {i \in DOMAIN issued : issued[i].via = "rotate" /\ issued[i].presented = tok}
\* the rows created for token value tok before row i
BackingBefore(tok, i) == {k \in 1..(i - 1) : issued[k].refresh = tok}
RowsOf(sub) == {i \in DOMAIN refresh_tokens : refresh_tokens[i].user_id = sub}
RotateReturned(result) == last.op = "rotate" /\ last.result = result

\* C1: with calls one after another, at most one rotate(R) ever returns a new
\* pair for a token value R, and once it has, every row that backed R is revoked.
C1_RotatesAtMostOnce ==
  \A i \in DOMAIN issued :
    issued[i].via = "rotate" =>
      /\ RotationsOf(issued[i].presented) = {i}
      /\ \A k \in BackingBefore(issued[i].presented, i) :
           refresh_tokens[k].revoked_at # NULL

\* C2: a rotate(R) made after R was rotated successfully, while R is still
\* validly signed and unexpired, returns ReuseDetected, and on its return every
\* row of R's subject is revoked.
C2_ReplayIsReuseDetected ==
  (/\ last.op = "rotate"
   /\ SignedRefresh(last.tok) /\ Unexpired(last.tok)
   /\ \E i \in RotationsOf(last.tok) : last.result = "ok" => i < Len(issued))
  => (/\ last.result = "ReuseDetected"
      /\ \A i \in RowsOf(last.tok.sub) : refresh_tokens[i].revoked_at # NULL)

\* C3: when rotate ends in ReuseDetected every row of the subject is revoked,
\* and a token that a replay should have ended (one whose row was active when
\* reuse was detected, or the refresh token an earlier rotation of a replayed
\* token returned) is never rotated successfully afterwards.
C3_ReuseKillsTheSession ==
  /\ [](RotateReturned("ReuseDetected") =>
          \A i \in RowsOf(last.tok.sub) : refresh_tokens[i].revoked_at # NULL)
  /\ [][(last'.op = "rotate" /\ last'.result = "ok") => last'.tok \notin burned]_vars

\* C7: revoked_at is written at most once, and no other column of a row ever
\* changes.
C7_RevokedAtWrittenOnce ==
  [][\A i \in DOMAIN refresh_tokens :
       /\ refresh_tokens'[i].user_id = refresh_tokens[i].user_id
       /\ refresh_tokens'[i].token_hash = refresh_tokens[i].token_hash
       /\ refresh_tokens'[i].expires_at = refresh_tokens[i].expires_at
       /\ refresh_tokens[i].revoked_at # NULL =>
            refresh_tokens'[i].revoked_at = refresh_tokens[i].revoked_at]_vars

\* C9: a successful rotation returns a refresh token that differs from the one
\* it consumed and from every refresh token issued before, and an access token
\* that differs from the one issued with the consumed token.
C9_RotationReturnsFreshTokens ==
  \A i \in DOMAIN issued :
    issued[i].via = "rotate" =>
      /\ issued[i].refresh # issued[i].presented
      /\ \A k \in 1..(i - 1) : issued[k].refresh # issued[i].refresh
      /\ \A k \in BackingBefore(issued[i].presented, i) :
           issued[k].access # issued[i].access

\* C6: rows are created only by a successful login and a successful rotation,
\* one row each, for the caller's subject; a successful rotation revokes just
\* the row it matched; every other call creates no row.
C6_RowsComeFromLoginAndRotation ==
  [][LET n == Len(refresh_tokens)
         m == Len(refresh_tokens')
         issuedNow == last'.op \in {"login", "rotate"} /\ last'.result = "ok"
         newlyRevoked == {i \in 1..n : /\ refresh_tokens[i].revoked_at = NULL
                                       /\ refresh_tokens'[i].revoked_at # NULL}
     IN /\ m = IF issuedNow THEN n + 1 ELSE n
        /\ issuedNow =>
             /\ refresh_tokens'[m].user_id = last'.sub
             /\ refresh_tokens'[m].revoked_at = NULL
        /\ (issuedNow /\ last'.op = "login") =>
             \A i \in 1..n : refresh_tokens'[i] = refresh_tokens[i]
        /\ (issuedNow /\ last'.op = "rotate") =>
             /\ newlyRevoked = {issued'[m].consumed}
             /\ refresh_tokens[issued'[m].consumed].user_id = last'.sub
             /\ \A i \in (1..n) \ newlyRevoked :
                  refresh_tokens'[i] = refresh_tokens[i]]_vars

\* a rotation succeeded while another row of the subject was active, and left it active
C6_Witness ==
  /\ RotateReturned("ok")
  /\ \E i \in RowsOf(last.sub) :
       /\ i < Len(refresh_tokens)
       /\ refresh_tokens[i].revoked_at = NULL
       /\ refresh_tokens[i].expires_at > now

\* C8: a rotate whose token does not verify under the refresh secret (bad
\* signature, expired) or is not of type refresh returns InvalidToken and
\* changes no row of any subject.
C8_InvalidTokenLeavesLedger ==
  [][(/\ last'.op = "rotate"
      /\ ~(SignedRefresh(last'.tok) /\ now < last'.tok.exp))
     => (/\ last'.result = "InvalidToken"
         /\ refresh_tokens' = refresh_tokens
         /\ issued' = issued
         /\ burned' = burned)]_vars

\* an expired but validly signed refresh token was refused while rows of its
\* subject and of another subject were not revoked
C8_Witness ==
  /\ RotateReturned("InvalidToken")
  /\ SignedRefresh(last.tok) /\ ~Unexpired(last.tok)
  /\ \E i \in RowsOf(last.tok.sub) : refresh_tokens[i].revoked_at = NULL
  /\ \E j \in DOMAIN refresh_tokens :
       /\ refresh_tokens[j].user_id # last.tok.sub
       /\ refresh_tokens[j].revoked_at = NULL

\* C10 as stated: the access token of a successful rotation carries the union,
\* over the subject's current roles, of every permission code of the role.
C10_PermissionsAreTheUnion ==
  RotateReturned("ok") =>
    issued[Len(issued)].access.permissions =
      {c \in Codes : \E r \in Roles : /\ <<last.sub, r>> \in user_roles
                                      /\ <<r, c>> \in role_permissions}

\* C10 amended: ... of every non-empty permission code of the role.
C10_PermissionsAreTheNonEmptyUnion ==
  RotateReturned("ok") =>
    issued[Len(issued)].access.permissions =
      {c \in Codes \ {""} : \E r \in Roles : /\ <<last.sub, r>> \in user_roles
                                             /\ <<r, c>> \in role_permissions}

\* a rotation returned permissions of two roles that differ from the claims of
\* the access token issued with the consumed refresh token
C10_Witness ==
  /\ RotateReturned("ok")
  /\ Cardinality({r \in Roles : <<last.sub, r>> \in user_roles}) = 2
  /\ issued[Len(issued)].access.permissions = {"A", "B"}
  /\ \E k \in BackingBefore(last.tok, Len(issued)) :
       issued[k].access.permissions # issued[Len(issued)].access.permissions

\* C4: of two rotations that present the same refresh token and run
\* concurrently on the same active row, at most one returns a new pair.
C4_OneConcurrentRotationWins ==
  \A i, j \in DOMAIN issued :
    (/\ i < j
     /\ issued[i].via = "rotate" /\ issued[j].via = "rotate"
     /\ issued[i].presented = issued[j].presented)
    => issued[i].consumed # issued[j].consumed

\* C5: every rotation that returned a new pair consumed a row that was
\* neither revoked nor expired when it was consumed.
C5_OnlyActiveRowsAreConsumed ==
  \A i \in DOMAIN issued :
    issued[i].via = "rotate" => ~issued[i].wasRevoked /\ ~issued[i].wasExpired

\* ------------------------------------------- claims about AutoRefreshGuard
\* what the claims read off a request, independent of canActivate's branches
ExpiredValid(b, t) == b.sig = AccessSecret /\ t >= b.exp
Entering(q) == requests[q].stage = "new" /\ requests'[q].stage # "new"
Resuming(q) == requests[q].stage = "waiting" /\ requests'[q].stage = "done"
Unsettled(s) == requests[s].promise.state = "pending"
UnsettledFor(key) ==
  {s \in Reqs : Unsettled(s) /\ refreshKey(requests[s].promise.tok) = key}
Joined(q, s) == q # s /\ requests[q].awaits = s
RotatePairs == {i \in DOMAIN issued : issued[i].via = "rotate"}
Starters == {s \in Reqs : requests[s].promise.state # "none"}

\* C11: a request with an expired access token that arrives while a request
\* with the same access token and the same refresh cookie has its rotation
\* unsettled starts no rotation and touches no row; every pair in the ledger
\* that a rotation created belongs to one starting request; and the requests of
\* such a burst continue with the access token of that one rotation.
C11_BurstMakesOneRotation ==
  /\ [][\A q \in Reqs : \A s \in Reqs \ {q} :
          (/\ Entering(q) /\ Unsettled(s)
           /\ ExpiredValid(requests'[q].bearer, now)
           /\ requests'[q].cookie # NoToken
           /\ requests'[q].bearer = requests[s].bearer
           /\ requests'[q].cookie = requests[s].cookie)
          => (/\ requests'[q].awaits = s
              /\ requests'[q].promise = NoPromise
              /\ refresh_tokens' = refresh_tokens
              /\ issued' = issued)]_vars
  /\ [](/\ Cardinality(RotatePairs)
            = Cardinality({s \in Starters : requests[s].promise.minted # 0})
        /\ \A q \in Reqs, s \in Reqs :
             (/\ Joined(q, s) /\ requests[q].stage = "done"
              /\ requests[s].stage = "done"
              /\ requests[s].promise.minted # 0)
             => (/\ requests[q].result = "pass" /\ requests[s].result = "pass"
                 /\ requests[q].authorization
                      = issued[requests[s].promise.minted].access
                 /\ requests[s].authorization
                      = issued[requests[s].promise.minted].access))

\* two requests with the same expired access token and the same cookie went on
\* with the access token of the one rotation in the ledger
C11_Witness ==
  \E q \in Reqs, s \in Reqs :
    /\ Joined(q, s)
    /\ requests[q].bearer = requests[s].bearer
    /\ requests[q].cookie = requests[s].cookie
    /\ requests[q].stage = "done" /\ requests[s].stage = "done"
    /\ requests[q].result = "pass" /\ requests[s].result = "pass"
    /\ requests[q].authorization = requests[s].authorization
    /\ requests[q].authorization # requests[q].bearer
    /\ Cardinality(RotatePairs) = 1

\* C12: for every key at most one rotation started by the guard is unsettled;
\* a request arriving for a key with an unsettled rotation starts none and
\* awaits that one, and ends as the request that started it ends.
C12_OneInFlightPerKey ==
  /\ [](\A s \in Reqs :
          Unsettled(s) =>
            UnsettledFor(refreshKey(requests[s].promise.tok)) = {s})
  /\ [][\A q \in Reqs : \A s \in Reqs \ {q} :
          (/\ Entering(q) /\ Unsettled(s)
           /\ ExpiredValid(requests'[q].bearer, now)
           /\ requests'[q].cookie # NoToken
           /\ refreshKey(requests'[q].cookie) = refreshKey(requests[s].promise.tok))
          => (requests'[q].awaits = s /\ requests'[q].promise = NoPromise)]_vars
  /\ [](\A q \in Reqs, s \in Reqs :
          (Joined(q, s) /\ requests[q].stage = "done" /\ requests[s].stage = "done")
          => (/\ requests[q].result = requests[s].result
              /\ requests[q].result = "pass" =>
                   requests[q].authorization = requests[s].authorization))

\* a request joined the rotation another request had started for its key with a
\* different cookie, and both were refused
C12_Witness ==
  \E q \in Reqs, s \in Reqs :
    /\ Joined(q, s)
    /\ requests[q].cookie # requests[s].cookie
    /\ requests[q].stage = "done" /\ requests[s].stage = "done"
    /\ requests[q].result = "Unauthorized" /\ requests[s].result = "Unauthorized"

\* C13: a key is registered in refreshPromises only while the rotation of the
\* request registered under it is unsettled, and a request arriving for a key
\* with no unsettled rotation starts a rotation of its own.
C13_EntryLivesWhileUnsettled ==
  /\ [](\A e \in refreshPromises :
          /\ Unsettled(e[2])
          /\ refreshKey(requests[e[2]].promise.tok) = e[1])
  /\ [][\A q \in Reqs :
          (/\ Entering(q)
           /\ ExpiredValid(requests'[q].bearer, now)
           /\ requests'[q].cookie # NoToken
           /\ UnsettledFor(refreshKey(requests'[q].cookie)) = {})
          => (/\ requests'[q].awaits = q
              /\ requests'[q].promise.state = "pending"
              /\ requests'[q].promise.tok = requests'[q].cookie)]_vars

\* a request started a rotation for a key whose earlier rotation had settled
C13_Witness ==
  \E q \in Reqs : \E s \in Reqs \ {q} :
    /\ requests[s].promise.state = "fulfilled"
    /\ Unsettled(q)
    /\ refreshKey(requests[q].promise.tok) = refreshKey(requests[s].promise.tok)
    /\ refreshPromises = {<<refreshKey(requests[q].promise.tok), q>>}

\* C14: a request with no bearer token, with a bearer token that verifies, or
\* with a bearer token whose signature is invalid (expired or not) passes
\* through: no rotation, no Set-Cookie, Authorization as sent, refreshPromises
\* and the ledger as they were.
C14_PassThroughUntouched ==
  [][\A q \in Reqs :
       (Entering(q) /\ ~ExpiredValid(requests'[q].bearer, now))
       => (/\ requests'[q].stage = "done"
           /\ requests'[q].result = "pass"
           /\ requests'[q].authorization = requests'[q].bearer
           /\ requests'[q].setCookie = <<>>
           /\ requests'[q].promise = NoPromise
           /\ requests'[q].awaits = ""
           /\ refreshPromises' = refreshPromises
           /\ refresh_tokens' = refresh_tokens
           /\ issued' = issued)]_vars

\* a tampered and expired bearer token, sent with a valid refresh cookie,
\* passed through
C14_Witness ==
  \E q \in Reqs :
    /\ requests[q].stage = "done" /\ requests[q].result = "pass"
    /\ requests[q].bearer.sig = "forged"
    /\ requests[q].bearer.exp <= requests[q].at
    /\ requests[q].cookie \in IssuedRefresh
    /\ requests[q].at < requests[q].cookie.exp
    /\ requests[q].setCookie = <<>>

\* C15: a request whose bearer token has a valid signature and is expired
\* makes one refresh attempt: with a cookie it awaits exactly one rotation, its
\* own new one or the unsettled one of its key; when that rotation returns an
\* access token the request continues with it as its Authorization header.
C15_ExpiredTokenRefreshesOnce ==
  /\ [][\A q \in Reqs :
          (/\ Entering(q)
           /\ ExpiredValid(requests'[q].bearer, now)
           /\ requests'[q].cookie # NoToken)
          => (/\ requests'[q].stage = "waiting"
              /\ requests'[q].awaits \in Reqs
              /\ (requests'[q].awaits = q) = (requests'[q].promise.state = "pending")
              /\ requests'[q].awaits # q =>
                   (Unsettled(requests'[q].awaits) /\ requests'[q].promise = NoPromise))]_vars
  /\ [][\A q \in Reqs :
          (Resuming(q) /\ requests[requests[q].awaits].promise.minted # 0)
          => (/\ requests'[q].result = "pass"
              /\ requests'[q].authorization
                   = issued[requests[requests[q].awaits].promise.minted].access)]_vars
  /\ [](\A q \in Reqs : requests[q].promise.state # "none" => requests[q].awaits = q)

\* a request with an expired access token started a rotation and went on with
\* the new access token in place of the one it sent
C15_Witness ==
  \E q \in Reqs :
    /\ requests[q].stage = "done" /\ requests[q].result = "pass"
    /\ ExpiredValid(requests[q].bearer, requests[q].at)
    /\ requests[q].awaits = q
    /\ requests[q].promise.minted # 0
    /\ requests[q].authorization = issued[requests[q].promise.minted].access
    /\ requests[q].authorization # requests[q].bearer

\* C16: when the refresh attempt of a request with an expired access token
\* fails (no cookie, or the awaited rotation returned no token) the request
\* ends Unauthorized with the cookie cleared on its own response, whether it
\* started the rotation or joined it.
C16_FailedRefreshIsUnauthorized ==
  /\ [][\A q \in Reqs :
          (\/ /\ Entering(q)
              /\ ExpiredValid(requests'[q].bearer, now)
              /\ requests'[q].cookie = NoToken
           \/ /\ Resuming(q)
              /\ requests[requests[q].awaits].promise.minted = 0)
          => (/\ requests'[q].stage = "done"
              /\ requests'[q].result = "Unauthorized"
              /\ requests'[q].authorization = requests'[q].bearer
              /\ requests'[q].setCookie # <<>>
              /\ requests'[q].setCookie[Len(requests'[q].setCookie)] = NoToken)]_vars
  /\ [](\A q \in Reqs :
          requests[q].result = "Unauthorized" =>
            /\ requests[q].setCookie # <<>>
            /\ \A i \in DOMAIN requests[q].setCookie : requests[q].setCookie[i] = NoToken)

\* a request that joined a rotation ending in ReuseDetected was refused and its
\* own response clears the cookie
C16_Witness ==
  \E q \in Reqs : \E s \in Reqs \ {q} :
    /\ requests[q].awaits = s
    /\ requests[s].promise.state = "fulfilled"
    /\ requests[s].promise.verified
    /\ requests[s].promise.minted = 0
    /\ requests[q].stage = "done"
    /\ requests[q].result = "Unauthorized"
    /\ requests[q].setCookie = <<NoToken>>

\* C17: every request that continues with a refreshed access token has the
\* refresh token of that rotation as the last refresh cookie written to its own
\* response, whether it started the rotation or joined it.
C17_RefreshedRequestGetsCookie ==
  \A q \in Reqs :
    (/\ requests[q].stage = "done" /\ requests[q].result = "pass"
     /\ requests[q].awaits # "")
    => (/\ requests[q].setCookie # <<>>
        /\ requests[q].setCookie[Len(requests[q].setCookie)]
             = issued[requests[requests[q].awaits].promise.minted].refresh)

\* C18: two requests whose refresh attempt failed, for whatever cause, get the
\* same error and the same Set-Cookie headers.
C18_FailureLooksTheSame ==
  \A q \in Reqs, s \in Reqs :
    (requests[q].result = "Unauthorized" /\ requests[s].result = "Unauthorized")
    => requests[q].setCookie = requests[s].setCookie

\* ------------------------------------------- claims about PermissionsGuard
\* the permission set of the caller: the claims of the token for the guard
\* that reads req.user.permissions, the codes of the user's roles for the
\* guard that reads the database
CallerPermissions(g, ur, rp) ==
  IF g.guard = "claims" THEN g.permissions
  ELSE {c \in Codes : \E r \in Roles : <<g.userId, r>> \in ur /\ <<r, c>> \in rp}

\* C19: the gate authorizes exactly when every required permission is in the
\* caller's permission set, and always when the handler declares none.
C19_GateIsSubsetTest ==
  [][gate' # gate =>
       /\ gate'.verdict =
            (\/ ~gate'.declared
             \/ gate'.required \subseteq
                  CallerPermissions(gate', user_roles, role_permissions))
       /\ ~gate'.declared => gate'.verdict]_vars

\* a caller whose roles give {A, B}, with a token that still says {A}, was denied
\* by the database guard a handler that requires {A, C}
C19_Witness ==
  /\ gate.guard = "database"
  /\ gate.permissions = {"A"}
  /\ CallerPermissions(gate, user_roles, role_permissions) = {"A", "B"}
  /\ gate.declared /\ gate.required = {"A", "C"}
  /\ ~gate.verdict

\* C20: a logout with a validly signed but expired refresh token revokes a
\* matching un-revoked row of its subject.
C20_ExpiredTokenCanLogOut ==
  [][\A tok \in Cookies :
       (/\ Logout(tok)
        /\ SignedRefresh(tok) /\ ~Unexpired(tok)
        /\ matching(tok, refresh_tokens,
                    findManyUnrevoked(refresh_tokens, tok.sub)) # {})
       => \E i \in DOMAIN refresh_tokens :
            /\ refresh_tokens[i].user_id = tok.sub
            /\ refresh_tokens[i].revoked_at = NULL
            /\ refresh_tokens'[i].revoked_at # NULL]_vars

\* ------------------------------------------- claims about logout, logout-all
\* the rows created for the token value tok
RowsBacking(tok) == {k \in DOMAIN issued : issued[k].refresh = tok}
NewlyRevoked ==
  {i \in DOMAIN refresh_tokens : /\ refresh_tokens[i].revoked_at = NULL
                                 /\ refresh_tokens'[i].revoked_at # NULL}
\* nothing but revoked_at of the rows in ids changed, and no row was added
OnlyRevoked(ids) ==
  /\ Len(refresh_tokens') = Len(refresh_tokens)
  /\ \A i \in DOMAIN refresh_tokens :
       IF i \in ids
       THEN refresh_tokens'[i] = [refresh_tokens[i] EXCEPT !.revoked_at = now]
       ELSE refresh_tokens'[i] = refresh_tokens[i]

\* C21: every logout returns without an error and clears the cookie, revokes at
\* most one row and changes nothing else; with no token, an unparseable token
\* or a token not signed with the refresh secret it changes no row; with a
\* token whose rows are all revoked already it changes no row.
C21_LogoutIsSilentAndIdempotent ==
  [][\A tok \in Cookies \cup {NoToken} :
       Logout(tok) =>
         /\ last'.result = "ok"
         /\ last'.setCookie = <<NoToken>>
         /\ Cardinality(NewlyRevoked) <= 1
         /\ OnlyRevoked(NewlyRevoked)
         /\ (tok = NoToken \/ tok.sig # RefreshSecretOf(config)) =>
              refresh_tokens' = refresh_tokens
         /\ (/\ RowsBacking(tok) # {}
             /\ \A k \in RowsBacking(tok) : refresh_tokens[k].revoked_at # NULL) =>
              refresh_tokens' = refresh_tokens]_vars

\* the refresh tokens issued to sub before revokeAllUserTokens last returned
\* for sub, and those issued to sub since
IssuedBeforeRevokeAll(sub) ==
  {issued[i].refresh : i \in {k \in 1..revokedAllUpTo[sub] :
                                 refresh_tokens[k].user_id = sub}}
IssuedSinceRevokeAll(sub) ==
  {issued[i].refresh : i \in {k \in (revokedAllUpTo[sub] + 1)..Len(issued) :
                                 refresh_tokens[k].user_id = sub}}

\* C22: logout-all of S writes revoked_at = now on every row of S that is not
\* revoked (so on every active one), leaves the rows of S that are revoked and
\* the rows of every other subject as they were, and adds no row; afterwards no
\* rotation of a refresh token that was issued to S before the call, and not
\* again since, returns a new pair.
C22_RevokeAllEndsEverySession ==
  /\ [][\A b \in Bearers :
          (logoutAll(b) /\ last'.result = "ok") =>
            /\ Len(refresh_tokens') = Len(refresh_tokens)
            /\ \A i \in DOMAIN refresh_tokens :
                 IF refresh_tokens[i].user_id = b.sub
                      /\ refresh_tokens[i].revoked_at = NULL
                 THEN refresh_tokens'[i] = [refresh_tokens[i] EXCEPT !.revoked_at = now]
                 ELSE refresh_tokens'[i] = refresh_tokens[i]
            /\ findManyActive(refresh_tokens', b.sub, now) = {}]_vars
  /\ [][(last'.op = "rotate" /\ last'.result = "ok") =>
          last'.tok \notin
            IssuedBeforeRevokeAll(last'.sub) \ IssuedSinceRevokeAll(last'.sub)]_vars

\* ------------------------------------------- claims about the steps of rotate
\* C23: a rotation that matched a row and revoked it does not end without the
\* row of its new pair: when the handler of such a rotation returns, the ledger
\* has one more row, created for the subject of the consumed row.
C23_RevokeAndIssueAreOneUnit ==
  [][\A t \in Tasks :
       (pc[t] \in {"rotate:roles", "rotate:issue"} /\ pc'[t] = "idle") =>
         /\ refresh_tokens[frame[t].matched].revoked_at # NULL
         /\ Len(refresh_tokens') = Len(refresh_tokens) + 1
         /\ refresh_tokens'[Len(refresh_tokens')].user_id
              = refresh_tokens[frame[t].matched].user_id
         /\ issued'[Len(issued')].consumed = frame[t].matched]_vars

\* ------------------------------------------- claims about the ledger match
\* C24: the row a rotation consumes and the row a logout revokes were created
\* for the very token that was presented, and no token value is backed by two
\* rows.
C24_MatchIsTokenSpecific ==
  /\ [](\A i \in DOMAIN issued :
          issued[i].via = "rotate" =>
            issued[i].consumed \in RowsBacking(issued[i].presented))
  /\ [][\A tok \in IssuedRefresh :
          Logout(tok) => NewlyRevoked \subseteq RowsBacking(tok)]_vars
  /\ [](\A i, j \in DOMAIN issued :
          issued[i].refresh = issued[j].refresh => i = j)

\* ------------------------------------------- claims about joined rotations
\* C25: a request whose bearer token the guard replaced presented a refresh
\* cookie that is a refresh token signed with the refresh secret, and the new
\* access token is for the subject of that cookie.
C25_RefreshedOnlyForOwnCookie ==
  \A q \in Reqs :
    (/\ requests[q].stage = "done" /\ requests[q].result = "pass"
     /\ requests[q].authorization # requests[q].bearer)
    => (/\ SignedRefresh(requests[q].cookie)
        /\ requests[q].authorization.sub = requests[q].cookie.sub)

\* C26: when the rotation started by one request settles, it does not revoke
\* the row of the refresh token that the successful rotation of an earlier
\* request with the same access token and the same refresh cookie created.
C26_LateRequestKeepsRenewedSession ==
  [][\A q \in Reqs : \A s \in Reqs \ {q} :
       (/\ Unsettled(q) /\ requests'[q].promise.state = "fulfilled"
        /\ requests[s].bearer = requests[q].bearer
        /\ requests[s].cookie = requests[q].cookie
        /\ requests[s].promise.minted # 0)
       => requests[s].promise.minted \notin NewlyRevoked]_vars

\* ------------------------------------------- claims about token kinds
\* C27: whether a distinct refresh secret is configured or not, rotate refuses
\* an access token as InvalidToken and leaves the ledger alone, and a refresh
\* token sent as the bearer token of a route behind JwtAuthGuard is refused.
C27_TokenKindsAreNotInterchangeable ==
  /\ [][(last'.op = "rotate" /\ last'.tok \in IssuedAccess) =>
          (/\ last'.result = "InvalidToken"
           /\ refresh_tokens' = refresh_tokens
           /\ issued' = issued)]_vars
  /\ [][\A b \in IssuedRefresh :
          LogoutAll(b) =>
            (/\ last'.result = "Unauthorized"
             /\ refresh_tokens' = refresh_tokens)]_vars

\* ------------------------------------------- claims about the user's status
\* C28: a login or a rotation returns a new pair only when the status of the
\* subject is ACTIVE at that moment.
C28_TokensOnlyForActiveUsers ==
  [][(last'.op \in {"login", "rotate"} /\ last'.result = "ok") =>
       users[last'.sub].status = "ACTIVE"]_vars

\* ------------------------------------------- claims about subject isolation
\* the step left every row of the subjects other than sub as it was and
\* created no row for them
OthersUntouched(sub) ==
  /\ Len(refresh_tokens') >= Len(refresh_tokens)
  /\ \A i \in DOMAIN refresh_tokens' :
       IF i <= Len(refresh_tokens)
       THEN refresh_tokens[i].user_id # sub => refresh_tokens'[i] = refresh_tokens[i]
       ELSE refresh_tokens'[i].user_id = sub

C30_GatesAgreeOnCurrentClaims ==
  [][gate' # gate =>
       LET user == [userId |-> gate'.userId, permissions |-> gate'.permissions]
           handler == Handler(gate'.declared, gate'.required)
           resolved == {c \in Codes : \E r \in Roles :
                          /\ <<gate'.userId, r>> \in user_roles
                          /\ <<r, c>> \in role_permissions}
       IN gate'.permissions = resolved =>
            /\ returnsByClaims(user, handler)
                 = returnsByDatabase(user, handler, user_roles, role_permissions)
            /\ gate'.verdict = returnsByClaims(user, handler)]_vars

\* after the roles of the caller changed and the caller logged in again, the
\* gate that reads the tables allowed a handler that requires both codes to a
\* token that carries both
C30_Witness ==
  /\ gate.guard = "database"
  /\ gate.declared /\ gate.required = {"A", "B"}
  /\ gate.permissions = {"A", "B"}
  /\ gate.permissions = {c \in Codes : \E r \in Roles :
                           /\ <<gate.userId, r>> \in user_roles
                           /\ <<r, c>> \in role_permissions}
  /\ gate.verdict

====
